---- MODULE Spec2Model ----
(***************************************************************************)
(* Wallet ledger of the vendors app: the Order / RefundRequest post_save   *)
(* receivers of apps/vendors/signals.py, the payout view of                *)
(* apps/vendors/views.py and calculate_commission of services/utils.py.    *)
(* Money is an exact Decimal in the code; here it is an integer number of  *)
(* naira for the wallet and of kobo for calculate_commission.  Only        *)
(* additions and subtractions are applied to wallet money, so nothing is   *)
(* lost.  One vendor, hence one wallet, is modelled: the ledger code never *)
(* touches two wallets in one operation.  The second part is the vendor   *)
(* verification flow: the NIN / BVN views of apps/vendors/views.py behind  *)
(* rate_limit_verification of decorators.py, and the review actions of     *)
(* VendorProfileAdmin in admin.py.                                         *)
(***************************************************************************)
EXTENDS Integers, Sequences, FiniteSets, TLC

\* ------------------------------------------------------------------ bounds
NumOrders == 2
NumRefunds == 1
MaxOps == 4

Orders == 1..NumOrders
Refunds == 1..NumRefunds
PayoutAmounts == {500, 1000, 2500}

\* The storefront fixes an order's vendor_amount and a refund's amount and order
\* when it creates the row; the ledger only reads them.  Two order amounts tell
\* the orders apart, and the refund is smaller than either.
VendorAmountOf(o) == IF o % 2 = 1 THEN 2000 ELSE 600
RefundAmountOf(r) == 500
RefundOrderOf(r) == ((r - 1) % NumOrders) + 1

\* views.py: min_payout = Decimal('1000.00')
MinPayout == 1000

\* largest total, in kobo, given to calculate_commission
MaxTotal == 20

VARIABLES
    wallet,      \* the Wallet row: balance, pending_balance, total_earned, total_withdrawn
    txs,         \* the Transaction rows of the wallet, in creation order
    orders,      \* the Order rows
    refunds,     \* the RefundRequest rows
    lastOp,      \* history: the last request served and what its handlers did
    prevWallet,  \* history: the Wallet row before the last request
    prevTxs,     \* history: the Transaction rows before the last request
    nops,        \* number of requests served so far
    calc,        \* calculate_commission: its arguments and, once called, its result
    wk,          \* per request worker: the request it serves, its position in the
                 \* handler and the Wallet object it holds in memory
    base,        \* history: the stored rows when the workers now busy began
    vendors,     \* the VendorProfile rows
    attempts,    \* per vendor, the number of VerificationAttempt rows created in
                 \* the last hour (older rows are read by nothing)
    gwlog,       \* history: per vendor, the number of verification requests of the
                 \* last hour that called the identity gateway
    kycOp,       \* history: the last verification or review request that ended
    kw,          \* per vendor: the verification request in flight and the
                 \* VendorProfile object it loaded
    kops,        \* number of verification and review requests begun
    otp          \* the cache entries nin_otp_<number>: the code reference the
                 \* gateway gave for the number, kept for ten minutes

ledgerVars == <<wallet, txs, orders, refunds, lastOp, prevWallet, prevTxs, nops>>
histVars == <<lastOp, prevWallet, prevTxs>>
workerVars == <<wk, base>>
kycVars == <<vendors, attempts, gwlog, kycOp, kw, kops, otp>>
vars == <<wallet, txs, orders, refunds, lastOp, prevWallet, prevTxs, nops, calc, wk, base,
          vendors, attempts, gwlog, kycOp, kw, kops, otp>>

\* ------------------------------------------------------------------ rows
\* models.py Wallet: the four DecimalFields default to 0
NewWallet == [balance |-> 0, pending_balance |-> 0, total_earned |-> 0, total_withdrawn |-> 0]

\* models.py Order defaults: status 'pending', payment_status 'pending', no timestamps
NewOrder(status, amount) ==
    [status |-> status, payment_status |-> "pending", paid_at |-> FALSE,
     delivered_at |-> FALSE, vendor_amount |-> amount]

\* models.py RefundRequest: status defaults to 'pending'
NewRefund(o, amount) == [status |-> "pending", amount |-> amount, order |-> o]

\* a Transaction row; ref is the reference string, kept as a pair
Tx(type, amount, status, o, ref, before, after) ==
    [type |-> type, amount |-> amount, status |-> status, order |-> o, ref |-> ref,
     balance_before |-> before, balance_after |-> after]

\* ------------------------------------------------------------------ queries
\* Transaction.objects.filter(wallet, order, transaction_type='credit', status=...)
CreditIdx(t, o, status) ==
    {i \in 1..Len(t) : t[i].type = "credit" /\ t[i].order = o /\ t[i].status = status}

\* .first() under Meta.ordering = ['-created_at']: the newest matching row
First(S) == CHOOSE i \in S : \A j \in S : j <= i

RECURSIVE SumAmounts(_, _)
\* .aggregate(total=Sum('amount'))['total'] or 0 over the rows at indexes S
SumAmounts(t, S) ==
    IF S = {} THEN 0
    ELSE LET i == CHOOSE x \in S : TRUE IN t[i].amount + SumAmounts(t, S \ {i})

\* ------------------------------------------------------------------ receivers
\* The receivers read the wallet into memory (snap), change the copy and write
\* the named update_fields back.  s is the stored state [wallet, txs].

\* the receiver without its look-up of an existing pending credit
PaymentGuard_NoLookup(t, o, ord) ==
    ord.payment_status = "paid" /\ ord.paid_at

PaymentGuard(t, o, ord) ==
    ord.payment_status = "paid" /\ ord.paid_at /\ CreditIdx(t, o, "pending") = {}

PaymentWrite(s, snap, o, amt) ==
    [wallet |-> [s.wallet EXCEPT !.pending_balance = snap.pending_balance + amt],
     txs |-> Append(s.txs, Tx("credit", amt, "pending", o, <<"ORDER", o>>,
                               snap.balance, snap.balance))]

update_wallet_on_order_payment(s, o, ord) ==
    IF PaymentGuard(s.txs, o, ord)
    THEN PaymentWrite(s, s.wallet, o, ord.vendor_amount)
    ELSE s

\* the receiver without its look-up of an existing completed credit
DeliveryGuard_NoLookup(t, o, ord) ==
    ord.status = "delivered" /\ ord.delivered_at

DeliveryGuard(t, o, ord) ==
    ord.status = "delivered" /\ ord.delivered_at /\ CreditIdx(t, o, "completed") = {}

DeliveryWrite(s, snap, o, amt) ==
    LET pend == CreditIdx(s.txs, o, "pending")
        w == [s.wallet EXCEPT !.pending_balance = snap.pending_balance - amt,
                              !.balance = snap.balance + amt,
                              !.total_earned = snap.total_earned + amt]
    IN [wallet |-> w,
        txs |-> IF pend = {} THEN s.txs
                ELSE [s.txs EXCEPT ![First(pend)].status = "completed",
                                   ![First(pend)].balance_after = snap.balance + amt]]

update_wallet_on_order_delivery(s, o, ord) ==
    IF DeliveryGuard(s.txs, o, ord)
    THEN DeliveryWrite(s, s.wallet, o, ord.vendor_amount)
    ELSE s

\* post_save of Order with created = False: the receivers in registration order
OrderPostSave(s, o, ord) ==
    update_wallet_on_order_delivery(update_wallet_on_order_payment(s, o, ord), o, ord)

\* the receiver without its look-up of an existing refund transaction
RefundGuard_NoLookup(t, r, ref) ==
    ref.status = "approved"

RefundGuard(t, r, ref) ==
    ref.status = "approved"
    /\ ~ \E i \in 1..Len(t) : t[i].type = "refund" /\ t[i].ref = <<"REFUND", r>>

RefundWrite(s, snap, r, ref) ==
    [wallet |-> [s.wallet EXCEPT !.balance = snap.balance - ref.amount],
     txs |-> Append(s.txs, Tx("refund", ref.amount, "completed", ref.order, <<"REFUND", r>>,
                               snap.balance, snap.balance - ref.amount))]

process_approved_refund(s, r, ref) ==
    IF RefundGuard(s.txs, r, ref) THEN RefundWrite(s, s.wallet, r, ref) ELSE s

\* ------------------------------------------------------------------ history
Stored == [wallet |-> wallet, txs |-> txs]

Did(before, after) == IF before = after THEN "noop" ELSE "changed"

Record(op, id, amt, res, calls) ==
    /\ lastOp' = [op |-> op, id |-> id, amt |-> amt, res |-> res, calls |-> calls]
    /\ prevWallet' = wallet
    /\ prevTxs' = txs
    /\ nops' = nops + 1
    /\ UNCHANGED <<calc, kycVars, wk, base>>

\* an Order row is saved with the fields of ord; the receivers run
SaveOrder(op, o, ord) ==
    LET s1 == update_wallet_on_order_payment(Stored, o, ord)
        s2 == update_wallet_on_order_delivery(s1, o, ord)
    IN /\ orders' = [orders EXCEPT ![o] = ord]
       /\ wallet' = OrderPostSave(Stored, o, ord).wallet
       /\ txs' = OrderPostSave(Stored, o, ord).txs
       /\ Record(op, o, ord.vendor_amount,
                 <<IF ord.payment_status = "paid" /\ ord.paid_at
                       THEN Did(Stored, s1) ELSE "skipped",
                   IF ord.status = "delivered" /\ ord.delivered_at
                       THEN Did(s1, s2) ELSE "skipped">>, 0)
       /\ UNCHANGED refunds

\* ------------------------------------------------------------------ requests
\* views.py order_status_update_ajax: allowed_statuses
AllowedStatuses(status) ==
    CASE status = "pending" -> {"confirmed", "cancelled"}
      [] status = "confirmed" -> {"processing", "cancelled"}
      [] status = "processing" -> {"shipped"}
      [] status = "shipped" -> {"delivered"}
      [] OTHER -> {}

order_status_update_ajax(o, new_status) ==
    /\ nops < MaxOps
    /\ new_status \in AllowedStatuses(orders[o].status)
    /\ SaveOrder("order_status_update_ajax", o, [orders[o] EXCEPT !.status = new_status])

\* forms.py OrderStatusUpdateForm: the status choices offered for the instance
FormChoices(status) ==
    IF AllowedStatuses(status) # {} THEN AllowedStatuses(status) ELSE {status}

\* views.py order_detail, POST with a valid form: form.save()
order_detail(o, new_status) ==
    /\ nops < MaxOps
    /\ new_status \in FormChoices(orders[o].status)
    /\ SaveOrder("order_detail", o, [orders[o] EXCEPT !.status = new_status])

\* the commerce subsystem records a cleared payment and saves the order
PaymentCleared(o) ==
    /\ nops < MaxOps
    /\ orders[o].payment_status # "paid"
    /\ orders[o].status # "cancelled"
    /\ SaveOrder("PaymentCleared", o,
                 [orders[o] EXCEPT !.payment_status = "paid", !.paid_at = TRUE])

\* the commerce subsystem records a confirmed delivery and saves the order
DeliveryConfirmed(o) ==
    /\ nops < MaxOps
    /\ orders[o].status \in {"shipped", "delivered"}
    /\ ~ orders[o].delivered_at
    /\ SaveOrder("DeliveryConfirmed", o,
                 [orders[o] EXCEPT !.status = "delivered", !.delivered_at = TRUE])

\* admin.py RefundRequestAdmin change form: status is editable; save_model then post_save
RefundAdminSave(r, new_status) ==
    LET ref == [refunds[r] EXCEPT !.status = new_status]
        s1 == process_approved_refund(Stored, r, ref)
    IN /\ nops < MaxOps
       /\ refunds' = [refunds EXCEPT ![r] = ref]
       /\ wallet' = s1.wallet
       /\ txs' = s1.txs
       /\ Record("RefundAdminSave", r, ref.amount,
                 <<IF new_status = "approved" THEN Did(Stored, s1) ELSE "skipped">>, 0)
       /\ UNCHANGED orders

\* admin.py approve_refunds: queryset.update(), which sends no post_save
approve_refunds(r) ==
    /\ nops < MaxOps
    /\ refunds[r].status = "pending"
    /\ refunds' = [refunds EXCEPT ![r].status = "approved"]
    /\ Record("approve_refunds", r, refunds[r].amount, <<"updated">>, 0)
    /\ UNCHANGED <<wallet, txs, orders>>

\* ------------------------------------------------------------------ payout
\* views.py request_payout: which branch a POST of `amount` takes, given the wallet
\* the view loaded (snap) and the gateway's two answers
\* the view without its comparison of the amount with the balance
PayoutOutcome_NoBalanceCheck(snap, amount, recipient_ok, transfer_ok) ==
    IF snap.balance < MinPayout THEN "below_minimum_balance"
    ELSE IF amount < MinPayout THEN "below_minimum"
    ELSE IF ~ recipient_ok THEN "attribute_error"
    ELSE IF ~ transfer_ok THEN "payout_failed"
    ELSE "paid"

PayoutOutcome(snap, amount, recipient_ok, transfer_ok) ==
    IF snap.balance < MinPayout THEN "below_minimum_balance"
    ELSE IF amount > snap.balance THEN "insufficient_balance"
    ELSE IF amount < MinPayout THEN "below_minimum"
    ELSE IF ~ recipient_ok THEN "attribute_error"
    ELSE IF ~ transfer_ok THEN "payout_failed"
    ELSE "paid"

\* gateway calls made: create_transfer_recipient, then initiate_transfer
PayoutCalls(outcome) ==
    CASE outcome \in {"below_minimum_balance", "insufficient_balance", "below_minimum"} -> 0
      [] outcome = "attribute_error" -> 1
      [] OTHER -> 2

\* the message the view leaves for the vendor: messages.error, messages.success,
\* or none when wallet.paystack_recipient_code raises AttributeError and the
\* request ends in an unhandled exception
PayoutMessage(outcome) ==
    CASE outcome = "paid" -> "success"
      [] outcome = "attribute_error" -> "none"
      [] OTHER -> "error"

\* wallet.save() writes every field of the loaded copy; then Transaction.objects.create
PayoutWrite(s, snap, amount, n) ==
    LET w == [snap EXCEPT !.balance = snap.balance - amount,
                          !.total_withdrawn = snap.total_withdrawn + amount]
    IN [wallet |-> w,
        txs |-> Append(s.txs, Tx("payout", amount, "completed", 0, <<"PAYOUT", n>>,
                                  w.balance + amount, w.balance))]

request_payout(amount, recipient_ok, transfer_ok) ==
    LET outcome == PayoutOutcome(wallet, amount, recipient_ok, transfer_ok)
        s1 == IF outcome = "paid" THEN PayoutWrite(Stored, wallet, amount, nops) ELSE Stored
    IN /\ nops < MaxOps
       /\ wallet' = s1.wallet
       /\ txs' = s1.txs
       /\ Record("request_payout", 0, amount, <<outcome>>, PayoutCalls(outcome))
       /\ UNCHANGED <<orders, refunds>>

\* the same POST delivered a second time (a double click on submit) after the
\* first was paid: the view runs again from the top with the same amount
request_payout_again(recipient_ok, transfer_ok) ==
    LET amount == lastOp.amt
        outcome == PayoutOutcome(wallet, amount, recipient_ok, transfer_ok)
        s1 == IF outcome = "paid" THEN PayoutWrite(Stored, wallet, amount, nops) ELSE Stored
    IN /\ nops < MaxOps
       /\ lastOp.op = "request_payout"
       /\ lastOp.res = <<"paid">>
       /\ wallet' = s1.wallet
       /\ txs' = s1.txs
       /\ Record("request_payout_again", 0, amount, <<outcome>>, PayoutCalls(outcome))
       /\ UNCHANGED <<orders, refunds>>

\* ------------------------------------------------------------------ recalculation
\* signals.py recalculate_wallet_balances: the four fields from the log
RecalculatedWallet(t) ==
    LET credits == SumAmounts(t, {i \in 1..Len(t) : t[i].type = "credit" /\ t[i].status = "completed"})
        debits == SumAmounts(t, {i \in 1..Len(t) : t[i].type \in {"payout", "refund"}
                                                   /\ t[i].status = "completed"})
        pending == SumAmounts(t, {i \in 1..Len(t) : t[i].type = "credit" /\ t[i].status = "pending"})
        payouts == SumAmounts(t, {i \in 1..Len(t) : t[i].type = "payout" /\ t[i].status = "completed"})
    IN [balance |-> credits - debits, pending_balance |-> pending,
        total_earned |-> credits, total_withdrawn |-> payouts]

recalculate_wallet_balances ==
    /\ nops < MaxOps
    /\ wallet' = RecalculatedWallet(txs)
    /\ Record("recalculate_wallet_balances", 0, 0,
              <<Did(wallet, RecalculatedWallet(txs))>>, 0)
    /\ UNCHANGED <<txs, orders, refunds>>

\* ------------------------------------------------------------------ commission
\* services/utils.py calculate_commission.  amount is in kobo (two decimal places
\* of a naira) and rate in hundredths of a percent (two decimal places), so
\* amount * rate / 100 is amount * rate / 10000 kobo, an exact Decimal.

\* round(Decimal, 2): Decimal.__round__ quantizes with ROUND_HALF_EVEN.
\* n / d for n >= 0, d > 0, to the nearest integer, ties to the even one.
RoundHalfEven(n, d) ==
    LET q == n \div d
        r == n % d
    IN IF 2 * r < d THEN q
       ELSE IF 2 * r > d THEN q + 1
       ELSE IF q % 2 = 0 THEN q ELSE q + 1

calculate_commission(amount, rate) ==
    LET commission == amount * rate              \* in 1/10000 kobo
        vendor_amount == amount * 10000 - commission
    IN [commission |-> RoundHalfEven(commission, 10000),
        vendor_amount |-> RoundHalfEven(vendor_amount, 10000)]

NoCalc == [amount |-> 0, rate |-> 0, called |-> FALSE, commission |-> 0, vendor_amount |-> 0]

CommissionRates == {0, 250, 1000, 1250, 5000, 10000}

Calculate ==
    /\ ~ calc.called
    /\ calc' = [calc EXCEPT !.called = TRUE,
                            !.commission = calculate_commission(calc.amount, calc.rate).commission,
                            !.vendor_amount = calculate_commission(calc.amount, calc.rate).vendor_amount]
    /\ UNCHANGED <<ledgerVars, workerVars, kycVars>>

\* ------------------------------------------------------------------ workers
\* The same requests served by two request workers of the web layer at once.
\* No handler locks the Wallet row or opens a transaction, so each read and each
\* write of the database is a step of its own and the steps of the two workers
\* interleave.  A worker keeps the Wallet object it loaded (instance.vendor.wallet
\* is cached on the instance) and writes from that copy.
Workers == {"w1", "w2"}

NoRow == [status |-> "none"]
NoRequest == [kind |-> "none", id |-> 0, amt |-> 0, recipient_ok |-> FALSE, transfer_ok |-> FALSE]
Request(kind, id, amt, rok, tok) ==
    [kind |-> kind, id |-> id, amt |-> amt, recipient_ok |-> rok, transfer_ok |-> tok]

IdleWorker == [pc |-> "idle", op |-> NoRequest, row |-> NoRow, snap |-> NewWallet, loaded |-> FALSE]
NoBase == [wallet |-> NewWallet, txs |-> <<>>, orders |-> <<>>, refunds |-> <<>>]

InFlight(w) == wk[w].pc \notin {"idle", "done"}

\* the rows a request changes when it is served alone, start to end
ServeRequest(st, q) ==
    LET s == [wallet |-> st.wallet, txs |-> st.txs]
    IN CASE q.kind \in {"PaymentCleared", "DeliveryConfirmed"} ->
              LET ord == IF q.kind = "PaymentCleared"
                         THEN [st.orders[q.id] EXCEPT !.payment_status = "paid", !.paid_at = TRUE]
                         ELSE [st.orders[q.id] EXCEPT !.status = "delivered", !.delivered_at = TRUE]
                  s1 == OrderPostSave(s, q.id, ord)
              IN [st EXCEPT !.wallet = s1.wallet, !.txs = s1.txs, !.orders[q.id] = ord]
         [] q.kind = "RefundAdminSave" ->
              LET ref == [st.refunds[q.id] EXCEPT !.status = "approved"]
                  s1 == process_approved_refund(s, q.id, ref)
              IN [st EXCEPT !.wallet = s1.wallet, !.txs = s1.txs, !.refunds[q.id] = ref]
         [] q.kind = "request_payout" ->
              LET s1 == IF PayoutOutcome(st.wallet, q.amt, q.recipient_ok, q.transfer_ok) = "paid"
                        THEN PayoutWrite(s, st.wallet, q.amt, Len(st.txs))
                        ELSE s
              IN [st EXCEPT !.wallet = s1.wallet, !.txs = s1.txs]
         [] OTHER -> st

\* a worker takes a request: the rows as they are stored are remembered if no
\* other worker is busy
Take(w, q, pc, row, snap, loaded) ==
    /\ nops < MaxOps
    /\ wk[w].pc = "idle"
    /\ wk' = [wk EXCEPT ![w] = [pc |-> pc, op |-> q, row |-> row, snap |-> snap,
                                 loaded |-> loaded]]
    /\ base' = IF \A v \in Workers : wk[v].pc = "idle"
               THEN [wallet |-> wallet, txs |-> txs, orders |-> orders, refunds |-> refunds]
               ELSE base
    /\ nops' = nops + 1
    /\ UNCHANGED <<histVars, calc, kycVars>>

\* order.save(), then update_wallet_on_order_payment up to its look-up
BeginOrderSave(w, kind, o) ==
    LET ord == IF kind = "PaymentCleared"
               THEN [orders[o] EXCEPT !.payment_status = "paid", !.paid_at = TRUE]
               ELSE [orders[o] EXCEPT !.status = "delivered", !.delivered_at = TRUE]
        paid == ord.payment_status = "paid" /\ ord.paid_at
    IN /\ IF kind = "PaymentCleared"
          THEN orders[o].payment_status # "paid" /\ orders[o].status # "cancelled"
          ELSE orders[o].status \in {"shipped", "delivered"} /\ ~ orders[o].delivered_at
       /\ orders' = [orders EXCEPT ![o] = ord]
       /\ Take(w, Request(kind, o, ord.vendor_amount, FALSE, FALSE),
               IF PaymentGuard(txs, o, ord) THEN "pay_write" ELSE "del_check",
               ord, IF paid THEN wallet ELSE NewWallet, paid)
       /\ UNCHANGED <<wallet, txs, refunds>>

\* update_wallet_on_order_payment: wallet.save(update_fields) and the new row
PayWriteStep(w) ==
    LET me == wk[w]
        s1 == PaymentWrite(Stored, me.snap, me.op.id, me.op.amt)
    IN /\ me.pc = "pay_write"
       /\ wallet' = s1.wallet
       /\ txs' = s1.txs
       /\ wk' = [wk EXCEPT ![w].pc = "del_check",
                           ![w].snap.pending_balance = @ + me.op.amt]
       /\ UNCHANGED <<orders, refunds, histVars, nops, calc, kycVars, base>>

\* update_wallet_on_order_delivery up to its look-up
DelCheckStep(w) ==
    LET me == wk[w]
        delivered == me.row.status = "delivered" /\ me.row.delivered_at
    IN /\ me.pc = "del_check"
       /\ wk' = [wk EXCEPT ![w].pc = IF DeliveryGuard(txs, me.op.id, me.row)
                                     THEN "del_write" ELSE "done",
                           ![w].snap = IF delivered /\ ~ me.loaded THEN wallet ELSE @,
                           ![w].loaded = me.loaded \/ delivered]
       /\ UNCHANGED <<wallet, txs, orders, refunds, histVars, nops, calc, kycVars, base>>

\* update_wallet_on_order_delivery: wallet.save(update_fields) and the row update
DelWriteStep(w) ==
    LET me == wk[w]
        s1 == DeliveryWrite(Stored, me.snap, me.op.id, me.op.amt)
    IN /\ me.pc = "del_write"
       /\ wallet' = s1.wallet
       /\ txs' = s1.txs
       /\ wk' = [wk EXCEPT ![w].pc = "done"]
       /\ UNCHANGED <<orders, refunds, histVars, nops, calc, kycVars, base>>

\* the refund is saved as approved; process_approved_refund up to its look-up
BeginRefundSave(w, r) ==
    LET ref == [refunds[r] EXCEPT !.status = "approved"]
    IN /\ refunds' = [refunds EXCEPT ![r] = ref]
       /\ Take(w, Request("RefundAdminSave", r, ref.amount, FALSE, FALSE),
               IF RefundGuard(txs, r, ref) THEN "refund_write" ELSE "done",
               ref, wallet, TRUE)
       /\ UNCHANGED <<wallet, txs, orders>>

RefundWriteStep(w) ==
    LET me == wk[w]
        s1 == RefundWrite(Stored, me.snap, me.op.id, me.row)
    IN /\ me.pc = "refund_write"
       /\ wallet' = s1.wallet
       /\ txs' = s1.txs
       /\ wk' = [wk EXCEPT ![w].pc = "done"]
       /\ UNCHANGED <<orders, refunds, histVars, nops, calc, kycVars, base>>

\* request_payout loads the wallet and validates; the gateway is called next
BeginPayout(w, amount, recipient_ok, transfer_ok) ==
    /\ Take(w, Request("request_payout", 0, amount, recipient_ok, transfer_ok),
            IF PayoutOutcome(wallet, amount, recipient_ok, transfer_ok) = "paid"
            THEN "payout_write" ELSE "done",
            NoRow, wallet, TRUE)
    /\ UNCHANGED <<wallet, txs, orders, refunds>>

\* after the gateway answered: wallet.save() and the payout row
PayoutWriteStep(w) ==
    LET me == wk[w]
        s1 == PayoutWrite(Stored, me.snap, me.op.amt, Len(txs))
    IN /\ me.pc = "payout_write"
       /\ wallet' = s1.wallet
       /\ txs' = s1.txs
       /\ wk' = [wk EXCEPT ![w].pc = "done"]
       /\ UNCHANGED <<orders, refunds, histVars, nops, calc, kycVars, base>>

\* the responses are sent; the workers are free again
Respond ==
    /\ \A w \in Workers : ~ InFlight(w)
    /\ \E w \in Workers : wk[w].pc = "done"
    /\ wk' = [w \in Workers |-> IdleWorker]
    /\ base' = NoBase
    /\ UNCHANGED <<ledgerVars, calc, kycVars>>

\* ------------------------------------------------------------------ verification
\* The vendor verification views of views.py (nin_entry, nin_otp, bvn_entry,
\* bvn_otp) behind rate_limit_verification of decorators.py, and the review
\* actions of VendorProfileAdmin.  No view locks a row: nin_entry and bvn_entry
\* validate the form, look the number up and call the identity gateway before
\* they store anything, so these are three steps and the steps of two vendors'
\* requests interleave.  A request keeps the VendorProfile object it loaded and
\* vendor.save() writes every field of it.  Nothing creates a VerificationAttempt
\* row: no view and no gateway service writes one, and the admin pages refuse to
\* add one (has_add_permission returns False).
NumVendors == 2
NumNumbers == 2
MaxKycOps == 5

Vendors == 1..NumVendors
\* 11-digit numbers; 0 stands for the blank field
IdNumbers == 1..NumNumbers

\* decorators.py: recent_attempts >= 3
MaxAttempts == 3
\* admin.py approve_vendors: vendor.risk_score > 50
MaxRisk == 50

\* models.py VendorProfile and migration 0007: the field defaults
NewVendor ==
    [identity_status |-> "not_started", bank_status |-> "not_started",
     verification_status |-> "pending", nin_number |-> 0, bvn_number |-> 0,
     has_duplicate_nin |-> FALSE, duplicate_nin_vendor_id |-> 0,
     has_duplicate_bvn |-> FALSE, duplicate_bvn_vendor_id |-> 0,
     is_underage |-> FALSE, has_name_mismatch |-> FALSE, risk_score |-> 0]

\* what the identity provider holds for a number: the birth date behind the
\* second national-ID number makes its holder younger than 18
UnderageOf(n) == n = 2

\* VendorProfile.check_name_match: the name behind a bank number is the name
\* behind the national-ID number with the same index
check_name_match(row, b) == row.nin_number = b

\* VendorProfile.calculate_risk_score: the weighted sum of the flags, at most 100
calculate_risk_score(row) ==
    LET sum == (IF row.has_duplicate_nin THEN 40 ELSE 0)
               + (IF row.has_duplicate_bvn THEN 40 ELSE 0)
               + (IF row.has_name_mismatch THEN 15 ELSE 0)
               + (IF row.is_underage THEN 25 ELSE 0)
    IN IF sum > 100 THEN 100 ELSE sum

\* rate_limit_verification: VerificationAttempt rows of the vendor in the last hour
recent_attempts(v) == attempts[v]

NoKyc == [pc |-> "idle", num |-> 0, snap |-> NewVendor]

\* django.core.cache as dojah.py uses it: per number no entry ("none") or a
\* reference within its timeout ("live"); cache.get returns None for both a
\* missing entry and one whose timeout has run out
NoOtp == [n \in IdNumbers |-> "none"]

NoKycOp == [op |-> "init", vendor |-> 0, sel |-> {}, num |-> 0, res |-> "none", calls |-> 0,
            prev |-> [v \in Vendors |-> NewVendor], entry |-> "none"]

\* cache.get of the reference kept for a number
CacheGet(cache, n) == IF n \in IdNumbers THEN cache[n] ELSE "none"

\* a request ends: what it did, on which rows, whether it called the gateway,
\* and the cache entry of its number as the request found it
KycDone(op, v, sel, num, res, calls) ==
    /\ kycOp' = [op |-> op, vendor |-> v, sel |-> sel, num |-> num, res |-> res,
                 calls |-> calls, prev |-> vendors, entry |-> CacheGet(otp, num)]
    /\ gwlog' = IF calls > 0 THEN [gwlog EXCEPT ![v] = @ + 1] ELSE gwlog

KycBegin(v) ==
    /\ kops < MaxKycOps
    /\ kw[v].pc = "idle"
    /\ kops' = kops + 1

KycFrame == UNCHANGED <<ledgerVars, calc, workerVars, attempts>>

\* nin_entry up to form.is_valid(): the decorator, the status check and
\* NINEntryForm.clean_nin_number
NinEntryGate(v, n) ==
    IF recent_attempts(v) >= MaxAttempts THEN "rate_limited"
    ELSE IF vendors[v].identity_status = "nin_verified" THEN "already_verified"
    ELSE IF \E u \in Vendors : vendors[u].nin_number = n THEN "form_invalid"
    ELSE "form_valid"

nin_entry_begin(v, n) ==
    LET gate == NinEntryGate(v, n)
    IN /\ KycBegin(v)
       /\ IF gate = "form_valid"
          THEN /\ kw' = [kw EXCEPT ![v] = [pc |-> "nin_form_valid", num |-> n,
                                           snap |-> vendors[v]]]
               /\ UNCHANGED <<kycOp, gwlog>>
          ELSE /\ KycDone("nin_entry", v, {}, n, gate, 0)
               /\ UNCHANGED kw
       /\ UNCHANGED <<vendors, otp>>
       /\ KycFrame

\* nin_entry: the look-up of another vendor with the number
nin_entry_check(v) ==
    LET me == kw[v]
        dup == {u \in Vendors \ {v} : vendors[u].nin_number = me.num}
    IN /\ me.pc = "nin_form_valid"
       /\ IF dup # {}
          THEN /\ vendors' = [vendors EXCEPT ![v] =
                      [me.snap EXCEPT !.has_duplicate_nin = TRUE,
                                      !.duplicate_nin_vendor_id = First(dup)]]
               /\ kw' = [kw EXCEPT ![v] = NoKyc]
               /\ KycDone("nin_entry", v, {}, me.num, "duplicate", 0)
          ELSE /\ kw' = [kw EXCEPT ![v].pc = "nin_gateway"]
               /\ UNCHANGED <<vendors, kycOp, gwlog>>
       /\ UNCHANGED <<kops, otp>>
       /\ KycFrame

\* dojah.py send_nin_otp, the cache after a send the gateway accepted: the
\* reference is stored under the number when the answer holds one
send_nin_otp(cache, n, has_ref) ==
    IF has_ref THEN [cache EXCEPT ![n] = "live"] ELSE cache

\* nin_entry after dojah_service.verify_nin answered: the row is stored as
\* nin_otp_sent, the risk score computed, and send_nin_otp called
nin_entry_finish(v, verify_ok, otp_ok, has_ref) ==
    LET me == kw[v]
        row1 == [me.snap EXCEPT !.nin_number = me.num,
                                !.is_underage = @ \/ UnderageOf(me.num),
                                !.identity_status = "nin_otp_sent"]
        row2 == [row1 EXCEPT !.risk_score = calculate_risk_score(row1)]
        row3 == IF otp_ok THEN row2 ELSE [row2 EXCEPT !.identity_status = "nin_verified"]
    IN /\ me.pc = "nin_gateway"
       /\ kw' = [kw EXCEPT ![v] = NoKyc]
       /\ IF verify_ok
          THEN /\ vendors' = [vendors EXCEPT ![v] = row3]
               /\ otp' = IF otp_ok THEN send_nin_otp(otp, me.num, has_ref) ELSE otp
               /\ KycDone("nin_entry", v, {}, me.num,
                          IF otp_ok THEN "otp_sent" ELSE "otp_not_sent", 2)
          ELSE /\ UNCHANGED <<vendors, otp>>
               /\ KycDone("nin_entry", v, {}, me.num, "gateway_failed", 1)
       /\ UNCHANGED kops
       /\ KycFrame

\* verify_nin_otp without its look-up of the cached reference
verify_nin_otp_NoCacheCheck(entry, valid) ==
    IF valid THEN "verified" ELSE "invalid_otp"

\* dojah.py verify_nin_otp: entry is the cache entry of the number, valid the
\* gateway's answer to otp/validate for the reference and the code
verify_nin_otp(entry, valid) ==
    IF entry # "live" THEN "otp_expired"
    ELSE IF valid THEN "verified" ELSE "invalid_otp"

\* nin_otp saving on any answer of verify_nin_otp
NinOtpSave_OnAnyAnswer(row, dup, answer) ==
    [row EXCEPT !.identity_status = "nin_verified",
                !.has_duplicate_nin = @ \/ dup,
                !.is_underage = @ \/ UnderageOf(row.nin_number)]

\* nin_otp: the row after the view, given the answer of verify_nin_otp
NinOtpSave(row, dup, answer) ==
    IF answer = "verified"
    THEN [row EXCEPT !.identity_status = "nin_verified",
                     !.has_duplicate_nin = @ \/ dup,
                     !.is_underage = @ \/ UnderageOf(row.nin_number)]
    ELSE row

\* nin_otp, POST of a well-formed code
nin_otp(v, valid) ==
    LET row == vendors[v]
        dup == \E u \in Vendors \ {v} : vendors[u].nin_number = row.nin_number
        answer == verify_nin_otp(CacheGet(otp, row.nin_number), valid)
        res == IF recent_attempts(v) >= MaxAttempts THEN "rate_limited"
               ELSE IF row.identity_status # "nin_otp_sent" THEN "nin_first"
               ELSE answer
    IN /\ KycBegin(v)
       /\ vendors' = IF res \in {"rate_limited", "nin_first"} THEN vendors
                     ELSE [vendors EXCEPT ![v] = NinOtpSave(row, dup, answer)]
       /\ otp' = IF res = "verified" THEN [otp EXCEPT ![row.nin_number] = "none"] ELSE otp
       /\ KycDone("nin_otp", v, {}, row.nin_number, res,
                  IF res \in {"verified", "invalid_otp"} THEN 1 ELSE 0)
       /\ UNCHANGED kw
       /\ KycFrame

\* ten minutes after cache.set(key, ref, timeout=600) the reference is gone
OtpExpires(n) ==
    /\ otp[n] = "live"
    /\ otp' = [otp EXCEPT ![n] = "none"]
    /\ UNCHANGED <<ledgerVars, calc, workerVars, vendors, attempts, gwlog, kycOp, kw, kops>>

\* bvn_entry without its check of identity_status
BvnEntryGate_NoIdentityCheck(v, b) ==
    IF recent_attempts(v) >= MaxAttempts THEN "rate_limited"
    ELSE IF vendors[v].bank_status = "bvn_verified" THEN "already_verified"
    ELSE IF \E u \in Vendors : vendors[u].bvn_number = b THEN "form_invalid"
    ELSE "form_valid"

\* bvn_entry up to form.is_valid(): the decorator, the two status checks and
\* BVNEntryForm.clean_bvn_number
BvnEntryGate(v, b) ==
    IF recent_attempts(v) >= MaxAttempts THEN "rate_limited"
    ELSE IF vendors[v].identity_status # "nin_verified" THEN "nin_first"
    ELSE IF vendors[v].bank_status = "bvn_verified" THEN "already_verified"
    ELSE IF \E u \in Vendors : vendors[u].bvn_number = b THEN "form_invalid"
    ELSE "form_valid"

bvn_entry_begin(v, b) ==
    LET gate == BvnEntryGate(v, b)
    IN /\ KycBegin(v)
       /\ IF gate = "form_valid"
          THEN /\ kw' = [kw EXCEPT ![v] = [pc |-> "bvn_form_valid", num |-> b,
                                           snap |-> vendors[v]]]
               /\ UNCHANGED <<kycOp, gwlog>>
          ELSE /\ KycDone("bvn_entry", v, {}, b, gate, 0)
               /\ UNCHANGED kw
       /\ UNCHANGED vendors
       /\ UNCHANGED otp
       /\ UNCHANGED otp
    /\ KycFrame

\* bvn_entry: the look-up of another vendor with the number
bvn_entry_check(v) ==
    LET me == kw[v]
        dup == {u \in Vendors \ {v} : vendors[u].bvn_number = me.num}
    IN /\ me.pc = "bvn_form_valid"
       /\ IF dup # {}
          THEN /\ vendors' = [vendors EXCEPT ![v] =
                      [me.snap EXCEPT !.has_duplicate_bvn = TRUE,
                                      !.duplicate_bvn_vendor_id = First(dup)]]
               /\ kw' = [kw EXCEPT ![v] = NoKyc]
               /\ KycDone("bvn_entry", v, {}, me.num, "duplicate", 0)
          ELSE /\ kw' = [kw EXCEPT ![v].pc = "bvn_gateway"]
               /\ UNCHANGED <<vendors, kycOp, gwlog>>
       /\ UNCHANGED kops
       /\ UNCHANGED otp
       /\ UNCHANGED otp
    /\ KycFrame

\* bvn_entry after dojah_service.verify_bvn answered
bvn_entry_finish(v, verify_ok) ==
    LET me == kw[v]
        row1 == [me.snap EXCEPT !.has_name_mismatch = ~ check_name_match(me.snap, me.num),
                                !.bvn_number = me.num,
                                !.bank_status = "bvn_verified"]
        row2 == [row1 EXCEPT !.risk_score = calculate_risk_score(row1)]
    IN /\ me.pc = "bvn_gateway"
       /\ kw' = [kw EXCEPT ![v] = NoKyc]
       /\ IF verify_ok
          THEN /\ vendors' = [vendors EXCEPT ![v] = row2]
               /\ KycDone("bvn_entry", v, {}, me.num, "verified", 1)
          ELSE /\ UNCHANGED vendors
               /\ KycDone("bvn_entry", v, {}, me.num, "gateway_failed", 1)
       /\ UNCHANGED kops
       /\ UNCHANGED otp
       /\ UNCHANGED otp
    /\ KycFrame

\* bvn_otp, POST of a well-formed code
bvn_otp(v, otp_ok) ==
    LET row == vendors[v]
        res == IF recent_attempts(v) >= MaxAttempts THEN "rate_limited"
               ELSE IF row.bank_status # "bvn_otp_sent" THEN "bvn_first"
               ELSE IF otp_ok THEN "verified" ELSE "invalid_otp"
    IN /\ KycBegin(v)
       /\ vendors' = IF res = "verified"
                     THEN [vendors EXCEPT ![v].bank_status = "bvn_verified"]
                     ELSE vendors
       /\ KycDone("bvn_otp", v, {}, 0, res,
                  IF res \in {"verified", "invalid_otp"} THEN 1 ELSE 0)
       /\ UNCHANGED kw
       /\ UNCHANGED otp
       /\ UNCHANGED otp
    /\ KycFrame

\* approve_vendors without its is_underage check
ApproveRow_NoUnderageCheck(row) ==
    IF row.identity_status # "nin_verified" THEN row
    ELSE IF row.bank_status # "bvn_verified" THEN row
    ELSE IF row.risk_score > MaxRisk THEN row
    ELSE [row EXCEPT !.verification_status = "approved"]

\* admin.py approve_vendors: one turn of the loop over the queryset
ApproveRow(row) ==
    IF row.identity_status # "nin_verified" THEN row
    ELSE IF row.bank_status # "bvn_verified" THEN row
    ELSE IF row.risk_score > MaxRisk THEN row
    ELSE IF row.is_underage THEN row
    ELSE [row EXCEPT !.verification_status = "approved"]

approve_vendors(sel) ==
    /\ kops < MaxKycOps
    /\ kops' = kops + 1
    /\ vendors' = [v \in Vendors |-> IF v \in sel THEN ApproveRow(vendors[v]) ELSE vendors[v]]
    /\ KycDone("approve_vendors", 0, sel, 0, "done", 0)
    /\ UNCHANGED kw
    /\ UNCHANGED otp
    /\ KycFrame

\* admin.py recalculate_risk_scores
recalculate_risk_scores(sel) ==
    /\ kops < MaxKycOps
    /\ kops' = kops + 1
    /\ vendors' = [v \in Vendors |->
                      IF v \in sel
                      THEN [vendors[v] EXCEPT !.risk_score = calculate_risk_score(vendors[v])]
                      ELSE vendors[v]]
    /\ KycDone("recalculate_risk_scores", 0, sel, 0, "done", 0)
    /\ UNCHANGED kw
    /\ UNCHANGED otp
    /\ KycFrame

\* models.py: the choices of the three status fields
IDENTITY_STATUS_CHOICES == {"not_started", "nin_entered", "nin_otp_sent", "nin_verified", "failed"}
BANK_STATUS_CHOICES == {"not_started", "bvn_entered", "bvn_otp_sent", "bvn_verified", "failed"}
VERIFICATION_STATUS_CHOICES ==
    {"pending", "nin_verified", "bvn_verified", "student_verified", "approved", "rejected",
     "suspended"}

\* the fields of the VendorProfile change form that are not in readonly_fields,
\* with the values the form accepts for each
FormFields ==
    [identity_status |-> IDENTITY_STATUS_CHOICES, bank_status |-> BANK_STATUS_CHOICES,
     verification_status |-> VERIFICATION_STATUS_CHOICES]

\* the edits of the change form that are tried: one status field set to one
\* of its choices
StatusEdits ==
    {<<"identity_status", "failed">>, <<"bank_status", "failed">>,
     <<"verification_status", "approved">>}

\* VendorProfileAdmin, the change form saved by staff with one status field
\* set to another of its choices; the other fields are posted back as loaded
change_view(v, field, value) ==
    /\ kops < MaxKycOps
    /\ kops' = kops + 1
    /\ value \in FormFields[field]
    /\ value # vendors[v][field]
    /\ vendors' = [vendors EXCEPT ![v][field] = value]
    /\ KycDone("change_view", 0, {v}, 0, field, 0)
    /\ UNCHANGED <<kw, otp>>
    /\ KycFrame

\* an hour passes without a request: timezone.now() - timedelta(hours=1) moves
\* past every row and every call counted so far
HourPasses ==
    /\ \E v \in Vendors : attempts[v] > 0 \/ gwlog[v] > 0
    /\ attempts' = [v \in Vendors |-> 0]
    /\ gwlog' = [v \in Vendors |-> 0]
    /\ UNCHANGED <<ledgerVars, calc, workerVars, vendors, kycOp, kw, kops, otp>>

\* the verification rows as the storefront creates them at registration
InitKyc ==
    /\ vendors = [v \in Vendors |-> NewVendor]
    /\ attempts = [v \in Vendors |-> 0]
    /\ gwlog = [v \in Vendors |-> 0]
    /\ kycOp = NoKycOp
    /\ kw = [v \in Vendors |-> NoKyc]
    /\ kops = 0
    /\ otp = NoOtp

\* ------------------------------------------------------------------ specification
\* Orders and refund requests are created by the storefront; creation runs no
\* ledger receiver (created = True).  An unpaid order's status moves along
\* AllowedStatuses without touching the wallet, so the orders start either new
\* or shipped.
Init ==
    /\ wallet = NewWallet
    /\ txs = <<>>
    /\ \E st \in {"pending", "shipped"} :
           orders = [o \in Orders |-> NewOrder(st, VendorAmountOf(o))]
    /\ refunds = [r \in Refunds |-> NewRefund(RefundOrderOf(r), RefundAmountOf(r))]
    /\ lastOp = [op |-> "init", id |-> 0, amt |-> 0, res |-> <<>>, calls |-> 0]
    /\ prevWallet = NewWallet
    /\ prevTxs = <<>>
    /\ nops = 0
    /\ calc = NoCalc
    /\ wk = [w \in Workers |-> IdleWorker]
    /\ base = NoBase
    /\ InitKyc

Next ==
    \/ \E o \in Orders, st \in {"confirmed", "processing", "shipped", "delivered", "cancelled"} :
           order_status_update_ajax(o, st)
    \/ \E o \in Orders, st \in {"confirmed", "processing", "shipped", "delivered", "cancelled"} :
           order_detail(o, st)
    \/ \E o \in Orders : PaymentCleared(o)
    \/ \E o \in Orders : DeliveryConfirmed(o)
    \/ \E r \in Refunds, st \in {"approved", "rejected"} :
           RefundAdminSave(r, st)
    \/ \E r \in Refunds : approve_refunds(r)
    \/ \E a \in PayoutAmounts, rok \in BOOLEAN, tok \in BOOLEAN : request_payout(a, rok, tok)
    \/ \E rok \in BOOLEAN, tok \in BOOLEAN : request_payout_again(rok, tok)
    \/ recalculate_wallet_balances

Spec == Init /\ [][Next]_vars

\* calculate_commission on every total up to MaxTotal kobo and every rate of
\* CommissionRates; the ledger is left as created
InitCommission ==
    /\ wallet = NewWallet
    /\ txs = <<>>
    /\ orders = [o \in Orders |-> NewOrder("pending", VendorAmountOf(o))]
    /\ refunds = [r \in Refunds |-> NewRefund(RefundOrderOf(r), RefundAmountOf(r))]
    /\ lastOp = [op |-> "init", id |-> 0, amt |-> 0, res |-> <<>>, calls |-> 0]
    /\ prevWallet = NewWallet
    /\ prevTxs = <<>>
    /\ nops = 0
    /\ wk = [w \in Workers |-> IdleWorker]
    /\ base = NoBase
    /\ InitKyc
    /\ \E a \in 0..MaxTotal, r \in CommissionRates :
           calc = [NoCalc EXCEPT !.amount = a, !.rate = r]

NextCommission == Calculate

SpecCommission == InitCommission /\ [][NextCommission]_vars

\* the requests served by two workers whose steps interleave
NextConcurrent ==
    \/ \E w \in Workers, o \in Orders : BeginOrderSave(w, "PaymentCleared", o)
    \/ \E w \in Workers, o \in Orders : BeginOrderSave(w, "DeliveryConfirmed", o)
    \/ \E w \in Workers : PayWriteStep(w)
    \/ \E w \in Workers : DelCheckStep(w)
    \/ \E w \in Workers : DelWriteStep(w)
    \/ \E w \in Workers, r \in Refunds : BeginRefundSave(w, r)
    \/ \E w \in Workers : RefundWriteStep(w)
    \/ \E w \in Workers, a \in PayoutAmounts, rok \in BOOLEAN, tok \in BOOLEAN :
           BeginPayout(w, a, rok, tok)
    \/ \E w \in Workers : PayoutWriteStep(w)
    \/ Respond

SpecConcurrent == Init /\ [][NextConcurrent]_vars

\* the verification and review requests; the ledger is left as created
InitVerification ==
    /\ wallet = NewWallet
    /\ txs = <<>>
    /\ orders = [o \in Orders |-> NewOrder("pending", VendorAmountOf(o))]
    /\ refunds = [r \in Refunds |-> NewRefund(RefundOrderOf(r), RefundAmountOf(r))]
    /\ lastOp = [op |-> "init", id |-> 0, amt |-> 0, res |-> <<>>, calls |-> 0]
    /\ prevWallet = NewWallet
    /\ prevTxs = <<>>
    /\ nops = 0
    /\ calc = NoCalc
    /\ wk = [w \in Workers |-> IdleWorker]
    /\ base = NoBase
    /\ InitKyc

NextVerification ==
    \/ \E v \in Vendors, n \in IdNumbers : nin_entry_begin(v, n)
    \/ \E v \in Vendors : nin_entry_check(v)
    \/ \E v \in Vendors, ok \in BOOLEAN, sent \in BOOLEAN, ref \in BOOLEAN :
           nin_entry_finish(v, ok, sent, ref)
    \/ \E v \in Vendors, valid \in BOOLEAN : nin_otp(v, valid)
    \/ \E n \in IdNumbers : OtpExpires(n)
    \/ \E v \in Vendors, b \in IdNumbers : bvn_entry_begin(v, b)
    \/ \E v \in Vendors : bvn_entry_check(v)
    \/ \E v \in Vendors, ok \in BOOLEAN : bvn_entry_finish(v, ok)
    \/ \E v \in Vendors, ok \in BOOLEAN : bvn_otp(v, ok)
    \/ \E sel \in SUBSET Vendors \ {{}} : approve_vendors(sel)
    \/ \E sel \in SUBSET Vendors \ {{}} : recalculate_risk_scores(sel)
    \/ HourPasses

SpecVerification == InitVerification /\ [][NextVerification]_vars

\* the identity and bank submissions, the approval action and the change form
\* of the VendorProfile admin page
NextReview ==
    \/ \E v \in Vendors, n \in IdNumbers : nin_entry_begin(v, n)
    \/ \E v \in Vendors : nin_entry_check(v)
    \/ \E v \in Vendors, ok \in BOOLEAN, sent \in BOOLEAN, ref \in BOOLEAN :
           nin_entry_finish(v, ok, sent, ref)
    \/ \E v \in Vendors, valid \in BOOLEAN : nin_otp(v, valid)
    \/ \E v \in Vendors, b \in IdNumbers : bvn_entry_begin(v, b)
    \/ \E v \in Vendors : bvn_entry_check(v)
    \/ \E v \in Vendors, ok \in BOOLEAN : bvn_entry_finish(v, ok)
    \/ \E sel \in SUBSET Vendors \ {{}} : approve_vendors(sel)
    \/ \E v \in Vendors, e \in StatusEdits : change_view(v, e[1], e[2])

SpecReview == InitVerification /\ [][NextReview]_vars

\* ------------------------------------------------------------------ properties
OrderSaveOps == {"order_status_update_ajax", "order_detail", "PaymentCleared", "DeliveryConfirmed"}

CreditsOf(t, o) == CreditIdx(t, o, "pending") \cup CreditIdx(t, o, "completed")

Completed(t) == {i \in 1..Len(t) : t[i].status = "completed"}

\* C1: every order has at most one credit transaction (pending or completed) in
\* the wallet's log, whatever saves of the order have happened.
C1_OneCreditPerOrder ==
    \A o \in Orders : Cardinality(CreditsOf(txs, o)) <= 1

\* C2: once the payment receiver has run for a paid order and nothing else has
\* happened since, running it again changes neither the wallet nor the log;
\* the order has exactly one pending credit, and the run that created it raised
\* pending_balance by vendor_amount and added that one row.
C2_SecondPaymentCreditIsNoop ==
    \A o \in Orders :
        (/\ lastOp.op \in OrderSaveOps
         /\ lastOp.id = o
         /\ lastOp.res[1] # "skipped"
         /\ lastOp.res[2] # "changed")
        => /\ update_wallet_on_order_payment(Stored, o, orders[o]) = Stored
           /\ Cardinality(CreditIdx(txs, o, "pending")) = 1
           /\ lastOp.res[1] = "changed" =>
                  /\ wallet = [prevWallet EXCEPT
                                  !.pending_balance = @ + orders[o].vendor_amount]
                  /\ Len(txs) = Len(prevTxs) + 1
           /\ lastOp.res[1] = "noop" => (wallet = prevWallet /\ txs = prevTxs)

\* C2 witness: a save of a paid order found the pending credit of an earlier save
\* and left wallet and log alone.
C2_Witness ==
    /\ lastOp.op \in OrderSaveOps
    /\ lastOp.res = <<"noop", "skipped">>
    /\ Cardinality(CreditIdx(txs, lastOp.id, "pending")) = 1
    /\ wallet = prevWallet
    /\ wallet.pending_balance = orders[lastOp.id].vendor_amount

\* C3: the delivery receiver changes the wallet's balances only for an order
\* that has a pending credit and no completed credit.
C3_ReleaseOnlyWithPendingCredit ==
    \A o \in Orders :
        update_wallet_on_order_delivery(Stored, o, orders[o]).wallet # wallet
        => (CreditIdx(txs, o, "pending") # {} /\ CreditIdx(txs, o, "completed") = {})

\* C4: for an order whose credit has been completed by the delivery receiver,
\* running the receiver again changes neither the wallet nor the log, and the
\* order has exactly one completed credit.
C4_SecondReleaseIsNoop ==
    \A o \in Orders :
        CreditIdx(txs, o, "completed") # {}
        => /\ update_wallet_on_order_delivery(Stored, o,
                  [orders[o] EXCEPT !.status = "delivered", !.delivered_at = TRUE]) = Stored
           /\ Cardinality(CreditIdx(txs, o, "completed")) = 1
           /\ (lastOp.op \in OrderSaveOps /\ lastOp.id = o /\ lastOp.res[2] = "noop")
              => /\ wallet.balance = prevWallet.balance
                 /\ wallet.total_earned = prevWallet.total_earned
                 /\ CreditIdx(txs, o, "completed") = CreditIdx(prevTxs, o, "completed")

\* C4 witness: a delivered order whose credit is completed was saved again and the
\* delivery receiver left the available balance and total_earned alone.
C4_Witness ==
    /\ lastOp.op \in OrderSaveOps
    /\ lastOp.res[2] = "noop"
    /\ orders[lastOp.id].status = "delivered"
    /\ Cardinality(CreditIdx(txs, lastOp.id, "completed")) = 1
    /\ wallet.balance = prevWallet.balance
    /\ wallet.balance >= orders[lastOp.id].vendor_amount

\* C5: the four monetary fields of the wallet are never negative.
C5_BalancesNonNegative ==
    /\ wallet.balance >= 0
    /\ wallet.pending_balance >= 0
    /\ wallet.total_earned >= 0
    /\ wallet.total_withdrawn >= 0

\* C6: the stored available balance equals the completed credits minus the
\* completed payouts and refunds of the log.
C6_BalanceMatchesLog ==
    wallet.balance =
        SumAmounts(txs, {i \in Completed(txs) : txs[i].type = "credit"})
        - SumAmounts(txs, {i \in Completed(txs) : txs[i].type \in {"payout", "refund"}})

\* C7: among the completed transactions in creation order, each balance_after
\* equals the next one's balance_before.
C7_SnapshotsChain ==
    \A i, j \in Completed(txs) :
        (i < j /\ ~ \E k \in Completed(txs) : i < k /\ k < j)
        => txs[i].balance_after = txs[j].balance_before

\* C10: a payout request for less than the minimum or for more than the
\* available balance makes no gateway call, leaves the wallet as it was and
\* records no transaction.
C10_RejectedPayoutChangesNothing ==
    (/\ lastOp.op = "request_payout"
     /\ (lastOp.amt < MinPayout \/ lastOp.amt > prevWallet.balance))
    => (lastOp.calls = 0 /\ wallet = prevWallet /\ txs = prevTxs)

\* C10 witness: a wallet holding at least the minimum refused a larger amount.
C10_Witness ==
    /\ lastOp.op = "request_payout"
    /\ lastOp.res = <<"insufficient_balance">>
    /\ lastOp.amt > prevWallet.balance
    /\ prevWallet.balance >= MinPayout
    /\ wallet = prevWallet

\* C8: the commission and the vendor amount returned by calculate_commission
\* add up to the total exactly.
C8_CommissionSplitIsExact ==
    calc.called => calc.commission + calc.vendor_amount = calc.amount

\* C9: when the two workers have served one request each, at once, the wallet
\* holds what serving the two requests one after the other, in one of the two
\* orders, would have left (and what serving it alone would have left, when
\* only one worker was busy).
C9_ConcurrentRequestsSerialize ==
    LET done == {w \in Workers : wk[w].pc = "done"}
    IN ((\A w \in Workers : ~ InFlight(w)) /\ done # {})
       => \E w \in done :
              IF done = {w}
              THEN wallet = ServeRequest(base, wk[w].op).wallet
              ELSE \E v \in done \ {w} :
                       wallet = ServeRequest(ServeRequest(base, wk[w].op), wk[v].op).wallet

RefundTxs(t, r) == {i \in 1..Len(t) : t[i].type = "refund" /\ t[i].ref = <<"REFUND", r>>}

\* C11: a payout request whose gateway call failed (recipient registration or
\* transfer initiation) leaves an error message for the vendor, changes no
\* wallet balance and records no payout transaction.
C11_GatewayFailureReported ==
    (/\ lastOp.op = "request_payout"
     /\ lastOp.calls > 0
     /\ lastOp.res # <<"paid">>)
    => /\ PayoutMessage(lastOp.res[1]) = "error"
       /\ wallet = prevWallet
       /\ txs = prevTxs

\* C12: however often a refund request is saved as approved, the log holds at
\* most one refund transaction for it, a further run of the receiver changes
\* nothing, and a save that found the refund transaction left the balance and
\* the log alone.
C12_RefundDebitedOnce ==
    \A r \in Refunds :
        /\ Cardinality(RefundTxs(txs, r)) <= 1
        /\ RefundTxs(txs, r) # {} =>
               process_approved_refund(Stored, r, [refunds[r] EXCEPT !.status = "approved"]) = Stored
        /\ (lastOp.op = "RefundAdminSave" /\ lastOp.id = r /\ RefundTxs(prevTxs, r) # {})
           => (wallet = prevWallet /\ txs = prevTxs)

\* C12 witness: an approved refund that was already debited is saved as approved
\* again; the balance shows the one debit.
C12_Witness ==
    /\ lastOp.op = "RefundAdminSave"
    /\ lastOp.res = <<"noop">>
    /\ refunds[lastOp.id].status = "approved"
    /\ Cardinality(RefundTxs(txs, lastOp.id)) = 1
    /\ RefundTxs(prevTxs, lastOp.id) # {}
    /\ wallet.balance = prevWallet.balance

\* C13: approving a refund larger than the available balance puts the refund in
\* an insufficient-balance error state and debits nothing.
C13_RefundOverBalanceIsError ==
    (/\ lastOp.op = "RefundAdminSave"
     /\ lastOp.res # <<"skipped">>
     /\ RefundTxs(prevTxs, lastOp.id) = {}
     /\ lastOp.amt > prevWallet.balance)
    => /\ refunds[lastOp.id].status = "insufficient_balance"
       /\ wallet = prevWallet
       /\ txs = prevTxs

\* C14: a vendor's identity_status becomes nin_verified only by a successful
\* nin_otp of that vendor made while the status was nin_otp_sent.
C14_IdentityVerifiedOnlyByOtp ==
    \A v \in Vendors :
        (/\ vendors[v].identity_status = "nin_verified"
         /\ kycOp.prev[v].identity_status # "nin_verified")
        => /\ kycOp.op = "nin_otp"
           /\ kycOp.vendor = v
           /\ kycOp.res = "verified"
           /\ kycOp.prev[v].identity_status = "nin_otp_sent"

\* C15: a vendor's bank_status becomes bvn_verified only by a successful bvn_otp
\* of that vendor made while the status was bvn_otp_sent.
C15_BankVerifiedOnlyByOtp ==
    \A v \in Vendors :
        (/\ vendors[v].bank_status = "bvn_verified"
         /\ kycOp.prev[v].bank_status # "bvn_verified")
        => /\ kycOp.op = "bvn_otp"
           /\ kycOp.vendor = v
           /\ kycOp.res = "verified"
           /\ kycOp.prev[v].bank_status = "bvn_otp_sent"

\* C16: a bank-number submission by a vendor whose identity_status is not
\* nin_verified ends without a gateway call and leaves the vendor's
\* identity_status and bank_status as they were.
C16_BankBeforeIdentityRejected ==
    (/\ kycOp.op = "bvn_entry"
     /\ kycOp.prev[kycOp.vendor].identity_status # "nin_verified")
    => /\ kycOp.calls = 0
       /\ kycOp.res \in {"nin_first", "rate_limited"}
       /\ vendors[kycOp.vendor].identity_status = kycOp.prev[kycOp.vendor].identity_status
       /\ vendors[kycOp.vendor].bank_status = kycOp.prev[kycOp.vendor].bank_status

\* C16 witness: a vendor who has sent a national-ID number but is not verified
\* submits a bank number and is sent back.
C16_Witness ==
    /\ kycOp.op = "bvn_entry"
    /\ kycOp.res = "nin_first"
    /\ kycOp.calls = 0
    /\ vendors[kycOp.vendor].identity_status = "nin_otp_sent"
    /\ vendors[kycOp.vendor].bank_status = "not_started"
    /\ vendors[kycOp.vendor].bvn_number = 0

\* C17: no two vendors hold the same stored national-ID number, and no two hold
\* the same stored bank-verification number.
C17_StoredNumbersUnique ==
    \A u, v \in Vendors :
        u # v => /\ vendors[u].nin_number # 0 => vendors[u].nin_number # vendors[v].nin_number
                 /\ vendors[u].bvn_number # 0 => vendors[u].bvn_number # vendors[v].bvn_number

\* C18: a bank-number submission, by a vendor free to submit one, of a number
\* stored for another vendor makes no gateway call, sets the submitting vendor's
\* has_duplicate_bvn and points duplicate_bvn_vendor_id at the other vendor.
C18_DuplicateBvnFlagged ==
    LET v == kycOp.vendor
        others == {u \in Vendors \ {v} : kycOp.prev[u].bvn_number = kycOp.num}
    IN (/\ kycOp.op = "bvn_entry"
        /\ kycOp.res \notin {"rate_limited", "nin_first", "already_verified"}
        /\ others # {})
       => /\ kycOp.calls = 0
          /\ vendors[v].has_duplicate_bvn
          /\ vendors[v].duplicate_bvn_vendor_id \in others

\* C19: within an hour at most MaxAttempts verification requests of a vendor
\* reach the identity gateway.
C19_GatewayCallsRateLimited ==
    \A v \in Vendors : gwlog[v] <= MaxAttempts

\* what approve_vendors requires of a vendor
Approvable(row) ==
    /\ row.identity_status = "nin_verified"
    /\ row.bank_status = "bvn_verified"
    /\ row.risk_score <= MaxRisk
    /\ ~ row.is_underage

\* C20: the approve action makes a selected vendor approved exactly when its
\* identity and bank statuses are verified, its risk score is at most 50 and it
\* is not underage; every other vendor's verification_status stays as it was.
C20_ApproveOnlyWhenEligible ==
    kycOp.op = "approve_vendors"
    => \A v \in Vendors :
           vendors[v].verification_status =
               IF v \in kycOp.sel /\ Approvable(kycOp.prev[v])
               THEN "approved"
               ELSE kycOp.prev[v].verification_status

\* C20 witness: the approve action was run on a vendor with both statuses
\* verified who is underage, and left it pending.
C20_Witness ==
    /\ kycOp.op = "approve_vendors"
    /\ \E v \in kycOp.sel :
           /\ kycOp.prev[v].identity_status = "nin_verified"
           /\ kycOp.prev[v].bank_status = "bvn_verified"
           /\ kycOp.prev[v].is_underage
           /\ vendors[v].verification_status = "pending"

\* C22: no request on the wallet lowers total_earned.
C22_TotalEarnedNeverDecreases ==
    wallet.total_earned >= prevWallet.total_earned

\* C23: when order_status_update_ajax moves an order that has a pending credit
\* to delivered, vendor_amount moves from pending_balance to balance and the
\* credit is completed by that request.
C23_AjaxDeliveryReleases ==
    LET o == lastOp.id
    IN (/\ lastOp.op = "order_status_update_ajax"
        /\ orders[o].status = "delivered"
        /\ CreditIdx(prevTxs, o, "pending") # {})
       => /\ wallet.balance = prevWallet.balance + orders[o].vendor_amount
          /\ wallet.pending_balance = prevWallet.pending_balance - orders[o].vendor_amount
          /\ CreditIdx(txs, o, "completed") # {}

\* C24: when approve_refunds approves a pending refund, the balance falls by the
\* refund amount and a completed refund transaction is recorded for it.
C24_ApproveRefundsDebits ==
    lastOp.op = "approve_refunds"
    => /\ wallet.balance = prevWallet.balance - lastOp.amt
       /\ \E i \in RefundTxs(txs, lastOp.id) : txs[i].status = "completed"

\* C25: a payout POST delivered a second time after it was paid changes neither
\* the wallet nor the log.
C25_PayoutAppliedOnce ==
    lastOp.op = "request_payout_again"
    => (wallet = prevWallet /\ txs = prevTxs)

\* C29: pending_balance equals the sum of the wallet's pending credits.
C29_PendingMatchesLog ==
    wallet.pending_balance =
        SumAmounts(txs, {i \in 1..Len(txs) : txs[i].type = "credit" /\ txs[i].status = "pending"})

\* C21: a one-time code that the gateway does not accept, or whose reference is
\* missing from the cache or timed out, leaves the vendor at nin_otp_sent and
\* changes no field of any vendor.
C21_FailedOtpChangesNothing ==
    (kycOp.op = "nin_otp" /\ kycOp.res \in {"invalid_otp", "otp_expired"})
    => /\ vendors[kycOp.vendor].identity_status = "nin_otp_sent"
       /\ vendors = kycOp.prev

\* a vendor at nin_otp_sent posted a code after the reference had timed out
C21_Witness ==
    /\ kycOp.op = "nin_otp"
    /\ kycOp.res = "otp_expired"
    /\ kycOp.prev[kycOp.vendor].identity_status = "nin_otp_sent"
    /\ vendors[kycOp.vendor].nin_number \in IdNumbers

\* C26: a vendor at nin_otp_sent whose reference is gone can submit the same
\* national-ID number again to get a new code: the submission is not turned
\* away as a number already registered.
C26_NewCodeAfterExpiry ==
    LET v == kycOp.vendor
    IN (/\ kycOp.op = "nin_entry"
        /\ kycOp.prev[v].identity_status = "nin_otp_sent"
        /\ kycOp.num = kycOp.prev[v].nin_number
        /\ kycOp.entry = "none")
       => kycOp.res \notin {"form_invalid", "duplicate"}

\* C27: right after a successful one-time-code verification the stored
\* risk_score is the score of the vendor's flags as they then stand.
C27_RiskScoreFreshAfterOtp ==
    (kycOp.op = "nin_otp" /\ kycOp.res = "verified")
    => vendors[kycOp.vendor].risk_score = calculate_risk_score(vendors[kycOp.vendor])

\* C28: a code verifies only against a reference that is in the cache within
\* its ten minutes, and the verification removes the reference, so a second
\* verification against it finds none.
C28_ReferenceVerifiesOnce ==
    (kycOp.op = "nin_otp" /\ kycOp.res = "verified")
    => /\ kycOp.entry = "live"
       /\ otp[kycOp.num] = "none"

\* a code was verified against its reference
C28_Witness ==
    /\ kycOp.op = "nin_otp"
    /\ kycOp.res = "verified"
    /\ vendors[kycOp.vendor].identity_status = "nin_verified"
    /\ kycOp.prev[kycOp.vendor].identity_status = "nin_otp_sent"

\* C30: every vendor whose verification_status is approved has identity_status
\* nin_verified and bank_status bvn_verified.
C30_ApprovedImpliesVerified ==
    \A v \in Vendors :
        vendors[v].verification_status = "approved"
        => /\ vendors[v].identity_status = "nin_verified"
           /\ vendors[v].bank_status = "bvn_verified"

====
